---- MODULE Spec2Model ----
(***************************************************************************)
(* A model of dynwave's sample pipeline (src/src/lib.rs, src/src/utils.rs): *)
(* AudioPlayer::new (configuration matching, optional AudioResampler,       *)
(* ring buffer sizing), AudioResampler::resample_into_producer with its     *)
(* read_frames / write_frames helpers, AudioPlayer::queue and the output    *)
(* callback built by create_output_processor.                               *)
(***************************************************************************)
EXTENDS Integers, Sequences, FiniteSets, TLC

(***************************************************************************)
(* Bounds of the model.                                                     *)
(***************************************************************************)
\* longest list of supported output configurations
MaxConfs == 2
\* largest argument of BufferSize::Samples
MaxSamplesArg == 4
\* sample values are 1 .. MaxSample, next to the neutral value
MaxSample == 2
\* longest slice passed to one queue call
MaxChunk == 3
\* most samples queued in one run
MaxFed == 6
\* most output slots of one callback invocation
MaxSlots == 2
\* most output slots filled in one run
MaxOut == 4
\* most frames deinterleaved by the codec on its own
MaxFrames == 2

(***************************************************************************)
(* Program constants.                                                       *)
(***************************************************************************)
\* the two channels of every stream the player opens
Channels == 2
\* input_rate / 60: the frames of one video frame at 60 FPS
RateUnit == 60
\* T::EQUILIBRIUM, the neutral sample
EQUILIBRIUM == 0

Min(a, b) == IF a <= b THEN a ELSE b

RECURSIVE Gcd(_, _)
Gcd(a, b) == IF b = 0 THEN a ELSE Gcd(b, a % b)

CeilDiv(a, b) == (a + b - 1) \div b

\* the rates of the modelled devices and requests: one and two rate units
Rates == {RateUnit, RateUnit + RateUnit}
\* T::FORMAT of the two sample types rubato implements Sample for
SampleTypes == {"F32", "F64"}
\* formats a device configuration may report
DeviceFormats == {"F32", "I16"}

\* cpal::SupportedStreamConfigRange
ConfigRanges ==
    {c \in [channels : {1, 2}, sample_format : DeviceFormats,
            min_sample_rate : Rates, max_sample_rate : Rates] :
        c.min_sample_rate <= c.max_sample_rate}

\* cpal::SupportedStreamConfig
StreamConfigs == [channels : {1, 2}, sample_format : DeviceFormats, sample_rate : Rates]

ConfLists == UNION {[1 .. n -> ConfigRanges] : n \in 0 .. MaxConfs}

\* what Device::default_output_config returns
DefaultOutcomes ==
    [ok : {TRUE}, cfg : StreamConfigs]
        \cup [ok : {FALSE}, err : {"DeviceNotAvailable", "StreamTypeNotSupported"}]

\* what Device::build_output_stream_raw returns
StreamOutcomes == {"Ok", "StreamConfigNotSupported"}

BufferSizes ==
    [kind : {"QuarterSecond", "HalfSecond", "OneSecond"}]
        \cup [kind : {"Samples"}, n : 1 .. MaxSamplesArg]

None == <<>>
Some(x) == <<x>>
IsSome(o) == Len(o) = 1
Unwrap(o) == o[1]

(***************************************************************************)
(* error.rs: the From conversions used by the ? operator in new.            *)
(***************************************************************************)
FromSupportedStreamConfigsError_Opaque(e) == "DeviceBackendSpecificError"

FromSupportedStreamConfigsError(e) ==
    CASE e = "DeviceNotAvailable" -> "DeviceNotAvailable"
      [] e = "InvalidArgument" -> "StreamConfigInvalidArgument"
      [] OTHER -> "DeviceBackendSpecificError"

FromDefaultStreamConfigError_Opaque(e) == "DeviceBackendSpecificError"

FromDefaultStreamConfigError(e) ==
    CASE e = "DeviceNotAvailable" -> "DeviceNotAvailable"
      [] e = "StreamTypeNotSupported" -> "StreamTypeNotSupported"
      [] OTHER -> "DeviceBackendSpecificError"

FromBuildStreamError(e) ==
    CASE e = "DeviceNotAvailable" -> "DeviceNotAvailable"
      [] e = "StreamConfigNotSupported" -> "StreamConfigNotSupported"
      [] e = "InvalidArgument" -> "StreamConfigInvalidArgument"
      [] e = "StreamIdOverflow" -> "StreamIdOverflow"
      [] OTHER -> "DeviceBackendSpecificError"

(***************************************************************************)
(* AudioResampler::new.  FftFixedInOut::new rounds the requested chunk of   *)
(* input_rate / 60 frames up to a whole number of input_rate / gcd blocks   *)
(* and rejects a rate of zero.                                              *)
(***************************************************************************)
FftFixedInOut_new(input_rate, output_rate, chunk_size_in) ==
    IF input_rate = 0 \/ output_rate = 0
    THEN [ok |-> FALSE, err |-> "ResamplerConstructionError"]
    ELSE LET gcd == Gcd(input_rate, output_rate)
             min_chunk_in == input_rate \div gcd
             fft_chunks == CeilDiv(chunk_size_in, min_chunk_in)
         IN  [ok |-> TRUE,
              input_frames_next |-> (fft_chunks * input_rate) \div gcd,
              output_frames_next |-> (fft_chunks * output_rate) \div gcd,
              overlap |-> <<EQUILIBRIUM, EQUILIBRIUM>>]

AudioResampler_new(input_rate, output_rate) ==
    LET resampler == FftFixedInOut_new(input_rate, output_rate, input_rate \div RateUnit)
    IN  IF ~resampler.ok
        THEN [ok |-> FALSE, err |-> resampler.err]
        ELSE [ok |-> TRUE,
              val |-> [input_rate |-> input_rate,
                       output_rate |-> output_rate,
                       resampler |-> [input_frames_next |-> resampler.input_frames_next,
                                      output_frames_next |-> resampler.output_frames_next,
                                      overlap |-> resampler.overlap],
                       pre_resampled_buffer |-> <<>>,
                       pre_resampled_split_buffers |-> <<(<<>>), (<<>>)>>,
                       resample_process_buffers |-> <<(<<>>), (<<>>)>>,
                       resampled_buffer |-> <<>>]]

(***************************************************************************)
(* BufferSize::store_for_samples.                                           *)
(***************************************************************************)
store_for_samples_OneChannel(buffer_size, sample_rate, channels) ==
    CASE buffer_size.kind = "QuarterSecond" -> sample_rate \div 4
      [] buffer_size.kind = "HalfSecond" -> sample_rate \div 2
      [] buffer_size.kind = "OneSecond" -> sample_rate
      [] buffer_size.kind = "Samples" -> buffer_size.n

store_for_samples(buffer_size, sample_rate, channels) ==
    CASE buffer_size.kind = "QuarterSecond" -> (sample_rate \div 4) * channels
      [] buffer_size.kind = "HalfSecond" -> (sample_rate \div 2) * channels
      [] buffer_size.kind = "OneSecond" -> sample_rate * channels
      [] buffer_size.kind = "Samples" -> buffer_size.n

(***************************************************************************)
(* AudioPlayer::new, the matching passes.                                   *)
(***************************************************************************)
InRange(c, sample_rate) ==
    c.min_sample_rate <= sample_rate /\ c.max_sample_rate >= sample_rate

ExactMatch_StrictMin(c, sample_rate, FORMAT) ==
    /\ c.channels = 2
    /\ c.sample_format = FORMAT
    /\ c.min_sample_rate < sample_rate
    /\ c.max_sample_rate >= sample_rate

\* the condition of the first loop (lib.rs 285-288)
ExactMatch(c, sample_rate, FORMAT) ==
    /\ c.channels = 2
    /\ c.sample_format = FORMAT
    /\ InRange(c, sample_rate)

found_conf(conf, sample_rate, FORMAT) ==
    \E i \in DOMAIN conf : ExactMatch(conf[i], sample_rate, FORMAT)

curr_match_RateFirst(c, sample_rate, FORMAT) ==
    IF c.channels = 2
    THEN 1 + (IF c.sample_format = FORMAT THEN 2 ELSE 0)
           + (IF InRange(c, sample_rate) THEN 3 ELSE 0)
    ELSE 0

\* curr_match of one configuration in the second loop
curr_match(c, sample_rate, FORMAT) ==
    IF c.channels = 2
    THEN 1 + (IF c.sample_format = FORMAT THEN 3 ELSE 0)
           + (IF InRange(c, sample_rate) THEN 2 ELSE 0)
    ELSE 0

\* the second loop from position i on: the index of matched_conf, 0 for None
RECURSIVE ScanBestMatch(_, _, _, _, _, _)
ScanBestMatch(conf, sample_rate, FORMAT, i, max_match, matched) ==
    IF i > Len(conf)
    THEN matched
    ELSE LET cm == curr_match(conf[i], sample_rate, FORMAT)
         IN  IF cm > max_match
             THEN ScanBestMatch(conf, sample_rate, FORMAT, i + 1, cm, i)
             ELSE ScanBestMatch(conf, sample_rate, FORMAT, i + 1, max_match, matched)

matched_conf(conf, sample_rate, FORMAT) ==
    ScanBestMatch(conf, sample_rate, FORMAT, 1, 0, 0)

with_rate_or_max_AlwaysMax(c, sample_rate) ==
    [channels |-> c.channels,
     sample_format |-> c.sample_format,
     sample_rate |-> c.max_sample_rate]

\* conf.try_with_sample_rate(sample_rate).unwrap_or_else(|| conf.with_max_sample_rate())
with_rate_or_max(c, sample_rate) ==
    [channels |-> c.channels,
     sample_format |-> c.sample_format,
     sample_rate |-> IF InRange(c, sample_rate) THEN sample_rate ELSE c.max_sample_rate]

\* the Err a failed stage of new returns
BuildErr(e, found, matched, default_query) ==
    [ok |-> FALSE, err |-> e, found_conf |-> found, matched_conf |-> matched,
     default_query |-> default_query]

\* lib.rs 342-366: the ring buffer, the callback and the stream
BuildStream(output_sample_rate, output_format, resampler, found, matched, default_query, buffer_size, stream_outcome) ==
    LET ring_buffer_len == store_for_samples(buffer_size, output_sample_rate, Channels)
    IN  IF stream_outcome # "Ok"
        THEN BuildErr(FromBuildStreamError(stream_outcome), found, matched, default_query)
        ELSE [ok |-> TRUE,
              output_sample_rate |-> output_sample_rate,
              output_format |-> output_format,
              resampler |-> resampler,
              ring_buffer_len |-> ring_buffer_len,
              buffer_size |-> buffer_size,
              found_conf |-> found,
              matched_conf |-> matched,
              default_query |-> default_query]

\* lib.rs 326: the configuration used must have two channels
NotDualChannel_Never(used_conf) == used_conf.channels < 1

NotDualChannel(used_conf) == used_conf.channels # 2

\* lib.rs 297-339: the second pass, the configuration used and its resampler
BestEffort(conf, sample_rate, FORMAT, default_outcome, buffer_size, stream_outcome) ==
    LET matched == matched_conf(conf, sample_rate, FORMAT)
        default_query == IF matched = 0 THEN Some(default_outcome) ELSE None
    IN  IF matched = 0 /\ ~default_outcome.ok
        THEN BuildErr(FromDefaultStreamConfigError(default_outcome.err), FALSE, matched,
                      default_query)
        ELSE LET used_conf == IF matched # 0
                              THEN with_rate_or_max(conf[matched], sample_rate)
                              ELSE default_outcome.cfg
                 resampler == AudioResampler_new(sample_rate, used_conf.sample_rate)
             IN  IF NotDualChannel(used_conf)
                 THEN BuildErr("DualChannelNotSupported", FALSE, matched, default_query)
                 ELSE IF ~resampler.ok
                 THEN BuildErr(resampler.err, FALSE, matched, default_query)
                 ELSE BuildStream(used_conf.sample_rate, used_conf.sample_format,
                                  Some(resampler.val), FALSE, matched,
                                  default_query, buffer_size, stream_outcome)

\* AudioPlayer::new against a backend that answers as `backend` says
new(sample_rate, FORMAT, backend, default_outcome, buffer_size, stream_outcome) ==
    IF ~backend.device
    THEN BuildErr("NoOutputDevice", FALSE, 0, None)
    ELSE IF ~backend.configs_ok
    THEN BuildErr(FromSupportedStreamConfigsError(backend.configs_err), FALSE, 0, None)
    ELSE IF found_conf(backend.conf, sample_rate, FORMAT)
    THEN BuildStream(sample_rate, FORMAT, None, TRUE, 0, None, buffer_size, stream_outcome)
    ELSE BestEffort(backend.conf, sample_rate, FORMAT, default_outcome, buffer_size,
                    stream_outcome)

(***************************************************************************)
(* The ring buffer (ringbuf::HeapRb) as the player uses it: push_slice on   *)
(* the producer half, try_pop on the consumer half.                         *)
(***************************************************************************)
HeapRb_new(capacity) == [capacity |-> capacity, items |-> <<>>]

vacant_len(rb) == rb.capacity - Len(rb.items)

push_slice_AllOrNothing(rb, data) ==
    IF Len(data) <= vacant_len(rb) THEN [rb EXCEPT !.items = @ \o data] ELSE rb

push_slice_LastFitting(rb, data) ==
    LET k == Min(vacant_len(rb), Len(data))
    IN  [rb EXCEPT !.items = @ \o SubSeq(data, Len(data) - k + 1, Len(data))]

push_slice_Overfill(rb, data) == [rb EXCEPT !.items = @ \o data]

\* appends as many leading samples of data as there are vacant slots
push_slice(rb, data) ==
    [rb EXCEPT !.items = @ \o SubSeq(data, 1, Min(vacant_len(rb), Len(data)))]

try_pop_Peek(rb) ==
    IF rb.items = <<>>
    THEN [val |-> None, rb |-> rb]
    ELSE [val |-> Some(Head(rb.items)), rb |-> rb]

\* the oldest sample, if any, and the buffer without it
try_pop(rb) ==
    IF rb.items = <<>>
    THEN [val |-> None, rb |-> rb]
    ELSE [val |-> Some(Head(rb.items)), rb |-> [rb EXCEPT !.items = Tail(@)]]

unwrap_or_Always(o, default) == default

\* Option::unwrap_or
unwrap_or(o, default) == IF IsSome(o) THEN Unwrap(o) ELSE default

(***************************************************************************)
(* The frame helpers of resample_into_producer.                             *)
(***************************************************************************)
\* the k-th value taken from the iterator goes to output (k - 1) mod channels
RECURSIVE ReadFramesFrom(_, _, _, _)
ReadFramesFrom(inbuffer, k, total, outputs) ==
    IF k > total
    THEN outputs
    ELSE ReadFramesFrom(inbuffer, k + 1, total,
             [outputs EXCEPT ![((k - 1) % Len(outputs)) + 1] = Append(@, inbuffer[k])])

\* read_frames: every output is cleared, then n_frames frames are split
read_frames(inbuffer, n_frames, outputs) ==
    ReadFramesFrom(inbuffer, 1, n_frames * Len(outputs),
                   [i \in DOMAIN outputs |-> <<>>])

\* the k-th push takes wave (k - 1) mod channels at frame (k - 1) div channels
RECURSIVE WriteFramesFrom(_, _, _, _)
WriteFramesFrom(waves, k, total, outbuffer) ==
    IF k > total
    THEN outbuffer
    ELSE WriteFramesFrom(waves, k + 1, total,
             Append(outbuffer, waves[((k - 1) % Len(waves)) + 1][((k - 1) \div Len(waves)) + 1]))

write_frames_Planar(waves, outbuffer) == outbuffer \o waves[1] \o waves[2]

\* write_frames: waves[0].len() frames are appended to outbuffer
write_frames(waves, outbuffer) ==
    WriteFramesFrom(waves, 1, Len(waves[1]) * Len(waves), outbuffer)

\* Vec::resize
resize(v, new_len, value) ==
    IF Len(v) >= new_len
    THEN SubSeq(v, 1, new_len)
    ELSE v \o [i \in 1 .. (new_len - Len(v)) |-> value]

split_off_OneEarly(v, at) == SubSeq(v, at, Len(v))

split_off_Half(v, at) == SubSeq(v, (at \div 2) + 1, Len(v))

\* Vec::split_off: the part from index at on
split_off(v, at) == SubSeq(v, at + 1, Len(v))

(***************************************************************************)
(* The transform behind Resampler::process_into_buffer: a deterministic,    *)
(* stateful block transform.  Each channel's output frame j repeats the     *)
(* input frame at the same relative position, offset by the last input      *)
(* frame of the previous block of that channel.                             *)
(***************************************************************************)
process_into_buffer(resampler, wave_in, wave_out) ==
    LET F == resampler.input_frames_next
        O == resampler.output_frames_next
        src(j) == (((j - 1) * F) \div O) + 1
    IN  [resampler |-> [resampler EXCEPT
                            !.overlap = [c \in DOMAIN wave_in |-> wave_in[c][F]]],
         wave_out |-> [c \in DOMAIN wave_out |->
                          [j \in DOMAIN wave_out[c] |->
                              IF j <= O
                              THEN wave_in[c][src(j)] + resampler.overlap[c]
                              ELSE wave_out[c][j]]]]

(***************************************************************************)
(* AudioResampler::resample_into_producer.                                  *)
(***************************************************************************)
HasBlock_OneShort(r) ==
    Len(r.pre_resampled_buffer) >= r.resampler.input_frames_next * 2 - 1

HasBlock_Strict(r) == Len(r.pre_resampled_buffer) > r.resampler.input_frames_next * 2

\* lib.rs 109: the loop goes on while a whole block is buffered
HasBlock(r) == Len(r.pre_resampled_buffer) >= r.resampler.input_frames_next * 2

PrepareProcessBuffers_FirstOnly(bufs, output_frames) ==
    <<resize(<<>>, output_frames, EQUILIBRIUM), bufs[2]>>

\* lib.rs 120-125: the scratch output buffers as the transform receives them
PrepareProcessBuffers(bufs, output_frames) ==
    <<resize(<<>>, output_frames, EQUILIBRIUM),
      resize(bufs[2], output_frames, EQUILIBRIUM)>>

\* lib.rs 113-145: one iteration of the loop, the push aside;
\* resampled_buffer is the block handed to push_slice
LoopBody(r) ==
    LET frames == r.resampler.input_frames_next
        split == read_frames(r.pre_resampled_buffer, frames, r.pre_resampled_split_buffers)
        output_frames == r.resampler.output_frames_next
        prepared == PrepareProcessBuffers(r.resample_process_buffers, output_frames)
        done == process_into_buffer(r.resampler, split, prepared)
    IN  [r EXCEPT !.resampler = done.resampler,
                  !.pre_resampled_split_buffers = split,
                  !.resample_process_buffers = done.wave_out,
                  !.resampled_buffer = write_frames(done.wave_out, <<>>),
                  !.pre_resampled_buffer = split_off(@, frames * 2)]

\* lib.rs 86: read_frames unwraps a sample the buffer does not hold
read_frames_panics(inbuffer, n_frames, outputs) == Len(inbuffer) < n_frames * Len(outputs)

\* lib.rs 127-133: the transform returns an error for buffers shorter than
\* the frames it demands, and the unwrap panics
process_panics(resampler, wave_in, wave_out) ==
    \E c \in DOMAIN wave_in :
        \/ Len(wave_in[c]) < resampler.input_frames_next
        \/ Len(wave_out[c]) < resampler.output_frames_next

\* lib.rs 113-133: the iteration panics at one of its two unwraps
LoopPanics(r) ==
    LET frames == r.resampler.input_frames_next
    IN  \/ read_frames_panics(r.pre_resampled_buffer, frames, r.pre_resampled_split_buffers)
        \/ process_panics(r.resampler,
                          read_frames(r.pre_resampled_buffer, frames,
                                      r.pre_resampled_split_buffers),
                          PrepareProcessBuffers(r.resample_process_buffers,
                                                r.resampler.output_frames_next))

ExtendCarry_Replace(r, data) == [r EXCEPT !.pre_resampled_buffer = data]

\* lib.rs 103: the new samples join the carry-over buffer
ExtendCarry(r, data) == [r EXCEPT !.pre_resampled_buffer = @ \o data]

ResampleLoop_Once(r, rb, emitted) ==
    IF ~HasBlock(r)
    THEN [r |-> r, rb |-> rb, emitted |-> emitted]
    ELSE LET r2 == LoopBody(r)
         IN  [r |-> r2, rb |-> push_slice(rb, r2.resampled_buffer),
              emitted |-> emitted \o r2.resampled_buffer]

\* the loop run to its return: the converter, the ring buffer and the blocks
\* handed to push_slice so far
RECURSIVE ResampleLoop(_, _, _)
ResampleLoop(r, rb, emitted) ==
    IF ~HasBlock(r)
    THEN [r |-> r, rb |-> rb, emitted |-> emitted]
    ELSE LET r2 == LoopBody(r)
         IN  ResampleLoop(r2, push_slice(rb, r2.resampled_buffer),
                          emitted \o r2.resampled_buffer)

\* a whole call with no consumer step in between
resample_into_producer(r, data, rb) == ResampleLoop(ExtendCarry(r, data), rb, <<>>)

(***************************************************************************)
(* State.                                                                   *)
(***************************************************************************)
VARIABLES
    req,     \* the arguments of new and the backend it runs against
    built,   \* what new returned, None before the call
    player,  \* the AudioPlayer: ring buffer, resampler, stream state
    prod,    \* the caller thread inside queue
    cb,      \* the output callback: slots left to fill, samples written, and
             \* the ring buffer as its running invocation found it
    hist,    \* history of the run: samples queued, accepted, popped, blocks
             \* handed to the transform; under SpecNew the backend's answer
             \* to build_output_stream_raw
    twin,    \* two resamplers fed the same stream in different slices
    codec    \* read_frames / write_frames on their own

vars == <<req, built, player, prod, cb, hist, twin, codec>>

\* what the backend answers to default_output_device and supported_output_configs
Backends ==
    [device : {TRUE}, configs_ok : {TRUE}, configs_err : {"None"}, conf : ConfLists]
        \cup [device : {TRUE}, configs_ok : {FALSE},
              configs_err : {"DeviceNotAvailable", "InvalidArgument"}, conf : {<<>>}]
        \cup [device : {FALSE}, configs_ok : {FALSE}, configs_err : {"None"}, conf : {<<>>}]

\* sample_rate is a u32 the caller is free to choose, zero included
RequestRates == Rates \cup {0}

Requests == [sample_rate : RequestRates, FORMAT : SampleTypes, backend : Backends]

Idle == [pc |-> "idle"]

(***************************************************************************)
(* Construction: one call of AudioPlayer::new for every request, backend    *)
(* answer and buffer size.                                                  *)
(***************************************************************************)
InitNew ==
    /\ req \in Requests
    /\ built = None
    /\ player = None
    /\ prod = Idle
    /\ cb = Idle
    /\ hist = None
    /\ twin = None
    /\ codec = None

New ==
    /\ built = None
    /\ \E default_outcome \in DefaultOutcomes, buffer_size \in BufferSizes,
          stream_outcome \in StreamOutcomes :
            /\ built' = Some(new(req.sample_rate, req.FORMAT, req.backend,
                                 default_outcome, buffer_size, stream_outcome))
            \* what the backend would answer to build_output_stream_raw
            /\ hist' = Some([stream_outcome |-> stream_outcome])
    /\ UNCHANGED <<twin, codec, req, player, prod, cb>>

NextNew == New

SpecNew == InitNew /\ [][NextNew]_vars

(***************************************************************************)
(* The running pipeline: the caller thread in queue / play / pause and the  *)
(* backend's callback, interleaved at every ring buffer operation.          *)
(***************************************************************************)
\* the slices a caller may pass to queue after `fed` samples: the i-th sample
\* of the run has the value i, so every sample of the stream is told apart
\* from every other and from the neutral sample
Slices(fed) == {[i \in 1 .. n |-> fed + i] : n \in 0 .. MaxChunk}

\* a device that supports exactly one rate, 2 channels, F32
SingleRateBackends ==
    {[device |-> TRUE, configs_ok |-> TRUE, configs_err |-> "None",
      conf |-> <<[channels |-> 2, sample_format |-> "F32",
                  min_sample_rate |-> r, max_sample_rate |-> r]>>] : r \in Rates}

\* the AudioPlayer a successful new returns
PlayerOf(b, playing) ==
    [buffer |-> HeapRb_new(b.ring_buffer_len),
     resampler |-> b.resampler,
     output_format |-> b.output_format,
     playing |-> playing]

\* utils.rs 70-74: the sample in the device's representation
from_sample(FORMAT, output_format, sample) ==
    IF output_format = FORMAT
    THEN sample
    ELSE [format |-> output_format, of |-> sample]

Init ==
    /\ req \in [sample_rate : Rates, FORMAT : {"F32"}, backend : SingleRateBackends]
    /\ \E n \in 1 .. MaxSamplesArg :
          built = Some(new(req.sample_rate, req.FORMAT, req.backend,
                           [ok |-> FALSE, err |-> "DeviceNotAvailable"],
                           [kind |-> "Samples", n |-> n], "Ok"))
    /\ Unwrap(built).ok
    \* a new stream may or may not be playing, depending on the backend
    /\ \E playing \in BOOLEAN : player = PlayerOf(Unwrap(built), playing)
    /\ prod = Idle
    /\ cb = [pc |-> "idle", left |-> 0, out |-> <<>>, silent |-> <<>>,
             n |-> 0, snap |-> <<>>, popped0 |-> 0, disturbed |-> FALSE]
    /\ hist = [queued |-> <<>>, accepted |-> <<>>, popped |-> <<>>,
               last_data |-> <<>>, last_before |-> <<>>, calls |-> 0,
               blocks |-> 0, handed |-> <<>>, ch |-> <<>>]
    /\ twin = None
    /\ codec = None

\* a push while the callback is between two slots
Disturb(c) ==
    IF c.pc = "fill"
    THEN [c EXCEPT !.disturbed = TRUE, !.snap = <<>>, !.popped0 = 0]
    ELSE c

\* the channel of the i-th of k samples of an interleaved run that starts at
\* stream position `first` (0 = left, 1 = right)
ChannelTags(first, k) == [i \in 1 .. k |-> (first + i - 1) % Channels]

\* the samples a push added behind those already buffered
Added(before, after) == SubSeq(after.items, Len(before.items) + 1, Len(after.items))

\* queue without a resampler (lib.rs 418-421)
QueueDirect(data) ==
    /\ prod.pc = "idle"
    /\ ~IsSome(player.resampler)
    /\ Len(hist.queued) + Len(data) <= MaxFed
    /\ LET rb == push_slice(player.buffer, data)
       IN  /\ player' = [player EXCEPT !.buffer = rb]
           /\ hist' = [hist EXCEPT !.queued = @ \o data,
                                   !.accepted = @ \o Added(player.buffer, rb),
                                   !.last_data = data,
                                   !.last_before = player.buffer.items,
                                   !.calls = 1,
                                   !.ch = @ \o ChannelTags(Len(hist.queued),
                                                           Len(Added(player.buffer, rb)))]
    /\ cb' = Disturb(cb)
    /\ UNCHANGED <<twin, codec, req, built, prod>>

\* queue with a resampler: the call enters resample_into_producer (lib.rs 103)
QueueResample(data) ==
    /\ prod.pc = "idle"
    /\ IsSome(player.resampler)
    /\ Len(hist.queued) + Len(data) <= MaxFed
    /\ player' = [player EXCEPT !.resampler = Some(ExtendCarry(Unwrap(@), data))]
    /\ prod' = [pc |-> "loop"]
    /\ hist' = [hist EXCEPT !.queued = @ \o data,
                            !.last_data = data,
                            !.last_before = player.buffer.items,
                            !.calls = 1]
    /\ UNCHANGED <<twin, codec, req, built, cb>>

\* one iteration of the loop of resample_into_producer (lib.rs 113-145)
ResampleBlock ==
    /\ prod.pc = "loop"
    /\ HasBlock(Unwrap(player.resampler))
    /\ IF LoopPanics(Unwrap(player.resampler))
       THEN /\ prod' = [pc |-> "panicked"]
            /\ UNCHANGED <<player, hist, cb>>
       ELSE LET r == LoopBody(Unwrap(player.resampler))
                rb == push_slice(player.buffer, r.resampled_buffer)
            IN  /\ player' = [player EXCEPT !.resampler = Some(r), !.buffer = rb]
                /\ hist' = [hist EXCEPT
                       !.accepted = @ \o Added(player.buffer, rb),
                       !.blocks = @ + 1,
                       !.handed = @ \o write_frames(r.pre_resampled_split_buffers, <<>>),
                       !.ch = @ \o ChannelTags(0, Len(Added(player.buffer, rb)))]
                /\ cb' = Disturb(cb)
                /\ UNCHANGED prod
    /\ UNCHANGED <<twin, codec, req, built>>

\* the loop's return (lib.rs 109-111)
ResampleReturn ==
    /\ prod.pc = "loop"
    /\ ~HasBlock(Unwrap(player.resampler))
    /\ prod' = Idle
    /\ UNCHANGED <<twin, codec, req, built, player, cb, hist>>

\* AudioPlayer::play and AudioPlayer::pause
Play ==
    /\ prod.pc = "idle"
    /\ player' = [player EXCEPT !.playing = TRUE]
    /\ UNCHANGED <<twin, codec, req, built, prod, cb, hist>>

Pause ==
    /\ prod.pc = "idle"
    /\ player' = [player EXCEPT !.playing = FALSE]
    /\ UNCHANGED <<twin, codec, req, built, prod, cb, hist>>

CallbackBegin_WhilePaused(n) ==
    /\ cb.pc = "idle"
    /\ Len(cb.out) + n <= MaxOut
    /\ cb' = [cb EXCEPT !.pc = "fill", !.left = n, !.n = n,
                         !.snap = player.buffer.items,
                         !.popped0 = Len(hist.popped),
                         !.disturbed = FALSE]
    /\ UNCHANGED <<twin, codec, req, built, player, prod, hist>>

\* the backend invokes the callback for n output slots
CallbackBegin(n) ==
    /\ player.playing
    /\ cb.pc = "idle"
    /\ Len(cb.out) + n <= MaxOut
    /\ cb' = [cb EXCEPT !.pc = "fill", !.left = n, !.n = n,
                         !.snap = player.buffer.items,
                         !.popped0 = Len(hist.popped),
                         !.disturbed = FALSE]
    /\ UNCHANGED <<twin, codec, req, built, player, prod, hist>>

\* one slot of the callback's loop (utils.rs 71-73)
CallbackSlot ==
    /\ cb.pc = "fill"
    /\ cb.left > 0
    /\ LET p == try_pop(player.buffer)
           sample == from_sample(req.FORMAT, player.output_format,
                                 unwrap_or(p.val, EQUILIBRIUM))
       IN  /\ player' = [player EXCEPT !.buffer = p.rb]
           /\ cb' = [cb EXCEPT !.left = cb.left - 1,
                               !.out = Append(cb.out, sample),
                               !.silent = Append(cb.silent, player.buffer.items = <<>>)]
           /\ hist' = [hist EXCEPT !.popped = IF IsSome(p.val)
                                              THEN Append(@, Unwrap(p.val))
                                              ELSE @]
    /\ UNCHANGED <<twin, codec, req, built, prod>>

\* the callback returns to the backend once every slot is written
CallbackReturn ==
    /\ cb.pc = "fill"
    /\ cb.left = 0
    /\ cb' = [cb EXCEPT !.pc = "idle", !.n = 0, !.snap = <<>>, !.popped0 = 0,
                         !.disturbed = FALSE]
    /\ UNCHANGED <<twin, codec, req, built, player, prod, hist>>

Next ==
    \/ \E data \in Slices(Len(hist.queued)) : QueueDirect(data)
    \/ \E data \in Slices(Len(hist.queued)) : QueueResample(data)
    \/ ResampleBlock
    \/ ResampleReturn
    \/ Play
    \/ Pause
    \/ \E n \in 1 .. MaxSlots : CallbackBegin(n)
    \/ CallbackSlot
    \/ CallbackReturn

Spec == Init /\ [][Next]_vars

(***************************************************************************)
(* Two resamplers of the same construction, each fed the same stream by     *)
(* whole calls of resample_into_producer, in slices chosen independently.   *)
(***************************************************************************)
\* the slices that continue the stream after `fed` samples, up to its end
RestSlices(fed) == {[i \in 1 .. n |-> fed + i] : n \in 0 .. (MaxFed - fed)}

Converter(b) ==
    [r |-> Unwrap(b.resampler), rb |-> HeapRb_new(b.ring_buffer_len),
     fed |-> <<>>, cuts |-> <<>>, emitted |-> <<>>]

\* one call resample_into_producer(data, producer) on converter c
Feed(c, data) ==
    LET res == resample_into_producer(c.r, data, c.rb)
    IN  [r |-> res.r, rb |-> res.rb,
         fed |-> c.fed \o data,
         cuts |-> IF data = <<>> THEN c.cuts ELSE Append(c.cuts, Len(data)),
         emitted |-> c.emitted \o res.emitted]

InitChunk ==
    /\ req \in [sample_rate : Rates, FORMAT : {"F32"}, backend : SingleRateBackends]
    /\ \E n \in 1 .. MaxSamplesArg :
          built = Some(new(req.sample_rate, req.FORMAT, req.backend,
                           [ok |-> FALSE, err |-> "DeviceNotAvailable"],
                           [kind |-> "Samples", n |-> n], "Ok"))
    /\ Unwrap(built).ok
    /\ IsSome(Unwrap(built).resampler)
    /\ twin = [a |-> Converter(Unwrap(built)), b |-> Converter(Unwrap(built))]
    /\ player = None
    /\ prod = Idle
    /\ cb = Idle
    /\ hist = None
    /\ codec = None

FeedFirst ==
    /\ \E data \in RestSlices(Len(twin.a.fed)) : twin' = [twin EXCEPT !.a = Feed(@, data)]
    /\ UNCHANGED <<req, built, player, prod, cb, hist, codec>>

FeedSecond ==
    /\ \E data \in RestSlices(Len(twin.b.fed)) : twin' = [twin EXCEPT !.b = Feed(@, data)]
    /\ UNCHANGED <<req, built, player, prod, cb, hist, codec>>

NextChunk == FeedFirst \/ FeedSecond

SpecChunk == InitChunk /\ [][NextChunk]_vars

(***************************************************************************)
(* read_frames followed by write_frames, on every stereo sequence.          *)
(***************************************************************************)
\* the sequences of n frames over the sample values and the neutral sample
StereoSeqs(n) == [1 .. 2 * n -> 0 .. MaxSample]

\* what the two per-channel buffers may hold from an earlier block
StaleOutputs == {<<(<<>>), (<<>>)>>, <<(<<1>>), (<<1, 2>>)>>}

InitCodec ==
    /\ \E n \in 0 .. MaxFrames : \E X \in StereoSeqs(n), stale \in StaleOutputs :
          codec = [stage |-> "start", X |-> X, n_frames |-> n,
                   outputs |-> stale, outbuffer |-> <<>>]
    /\ req = None
    /\ built = None
    /\ player = None
    /\ prod = Idle
    /\ cb = Idle
    /\ hist = None
    /\ twin = None

ReadFrames ==
    /\ codec.stage = "start"
    /\ codec' = [codec EXCEPT !.stage = "split",
                              !.outputs = read_frames(codec.X, codec.n_frames, @)]
    /\ UNCHANGED <<req, built, player, prod, cb, hist, twin>>

WriteFrames ==
    /\ codec.stage = "split"
    /\ codec' = [codec EXCEPT !.stage = "merged",
                              !.outbuffer = write_frames(codec.outputs, @)]
    /\ UNCHANGED <<req, built, player, prod, cb, hist, twin>>

NextCodec == ReadFrames \/ WriteFrames

SpecCodec == InitCodec /\ [][NextCodec]_vars

(***************************************************************************)
(* Claims about the running pipeline, checked under Spec.                   *)
(***************************************************************************)
Carry == Unwrap(player.resampler).pre_resampled_buffer
BlockFrames == Unwrap(player.resampler).resampler.input_frames_next

\* a step of queue in a player without a resampler
IsQueueDirectStep ==
    /\ ~IsSome(player.resampler)
    /\ hist' # hist
    /\ hist'.popped = hist.popped

\* C1: without a resampler, queue(data) on a buffer with k free slots leaves
\* the buffered samples in place, appends the first min(k, len(data)) samples
\* of data unchanged and in order, drops the rest and returns normally; a
\* burst longer than the capacity onto an empty buffer leaves its first
\* `capacity` samples.
C1_QueueKeepsFirstFitting ==
    [][IsQueueDirectStep =>
          LET data == hist'.last_data
              before == player.buffer.items
              k == player.buffer.capacity - Len(before)
              m == IF Len(data) <= k THEN Len(data) ELSE k
          IN  /\ hist'.queued = hist.queued \o data
              /\ player'.buffer.items = before \o SubSeq(data, 1, m)
              /\ player'.buffer.capacity = player.buffer.capacity
              /\ prod'.pc = "idle"
              /\ (before = <<>> /\ Len(data) > player.buffer.capacity)
                    => player'.buffer.items = SubSeq(data, 1, player.buffer.capacity)
      ]_vars

C1_Witness ==
    /\ ~IsSome(player.resampler)
    /\ hist.calls = 1
    /\ player.buffer.capacity = 2
    /\ hist.last_before = <<>>
    /\ Len(hist.last_data) = 3
    /\ player.buffer.items = SubSeq(hist.last_data, 1, 2)
    /\ hist.accepted = SubSeq(hist.last_data, 1, 2)

\* the output slots that were not filled with silence, in order
RECURSIVE Delivered(_, _)
Delivered(out, silent) ==
    IF out = <<>>
    THEN <<>>
    ELSE IF Head(silent)
         THEN Delivered(Tail(out), Tail(silent))
         ELSE <<Head(out)>> \o Delivered(Tail(out), Tail(silent))

\* C2: in every interleaving the samples popped so far are a prefix of the
\* samples the buffer accepted (so never more popped than pushed), the
\* callback delivers exactly the popped samples in that order, writes the
\* neutral sample in a slot whose pop found the buffer empty, and its next
\* slot can always be filled (it never waits).
C2_PoppedIsPrefixOfAccepted ==
    /\ Len(hist.popped) <= Len(hist.accepted)
    /\ hist.popped = SubSeq(hist.accepted, 1, Len(hist.popped))
    /\ Delivered(cb.out, cb.silent) = hist.popped
    /\ \A i \in DOMAIN cb.out : cb.silent[i] => cb.out[i] = EQUILIBRIUM
    /\ cb.pc = "fill" => IF cb.left > 0 THEN ENABLED CallbackSlot ELSE ENABLED CallbackReturn

C2_Witness ==
    /\ Len(cb.out) = 4
    /\ cb.silent = <<TRUE, FALSE, TRUE, FALSE>>
    /\ Len(hist.popped) = 2
    /\ Len(hist.accepted) > 2
    /\ prod.pc = "loop"

\* C7 as claimed: the carry-over buffer always holds a whole number of
\* stereo frames.
C7_CarryAlwaysWholeFrames ==
    IsSome(player.resampler) => Len(Carry) % 2 = 0

\* C7, amended: the carry-over buffer is exactly the tail of the samples fed
\* so far that no block has consumed, blocks consume whole frames (2 * F
\* samples each), and so its length is a multiple of 2 exactly when the
\* number of samples fed so far is even.
C7_CarryIsUnconsumedTail ==
    IsSome(player.resampler) =>
        LET fed == hist.queued
            consumed == Len(fed) - Len(Carry)
        IN  /\ consumed >= 0
            /\ Carry = SubSeq(fed, consumed + 1, Len(fed))
            /\ consumed % (2 * BlockFrames) = 0
            /\ (Len(Carry) % 2 = 0) <=> (Len(fed) % 2 = 0)

C7_Witness ==
    /\ IsSome(player.resampler)
    /\ BlockFrames = 2
    /\ prod.pc = "idle"
    /\ Len(hist.queued) = 6
    /\ Carry = <<5, 6>>

(***************************************************************************)
(* Claims about construction, checked under SpecNew.                        *)
(***************************************************************************)
Built == Unwrap(built)
Conf == req.backend.conf
\* new got as far as the list of supported configurations
Listed == IsSome(built) /\ req.backend.device /\ req.backend.configs_ok

RateWithin(c) ==
    c.min_sample_rate <= req.sample_rate /\ req.sample_rate <= c.max_sample_rate
IsExactConfig(c) ==
    c.channels = 2 /\ c.sample_format = req.FORMAT /\ RateWithin(c)
HasExactConfig == \E i \in DOMAIN Conf : IsExactConfig(Conf[i])
NoStereoConfig == \A i \in DOMAIN Conf : Conf[i].channels # 2

\* C3: whenever the list holds a 2-channel configuration of the requested
\* format whose range contains the requested rate, new takes the exact-match
\* branch: the output rate is the requested rate, the output format the
\* requested format, and there is no resampler.
C3_ExactMatchNoConverter ==
    (Listed /\ HasExactConfig) =>
        /\ Built.found_conf
        /\ Built.ok =>
            /\ Built.output_sample_rate = req.sample_rate
            /\ Built.output_format = req.FORMAT
            /\ Built.resampler = None

C3_Witness ==
    /\ Listed /\ Built.ok
    /\ Len(Conf) = 2
    /\ ~IsExactConfig(Conf[1]) /\ Conf[1].channels = 2
    /\ IsExactConfig(Conf[2])
    /\ Conf[2].min_sample_rate < Conf[2].max_sample_rate
    /\ Built.resampler = None

\* the score the second pass gives a configuration
Score(c) ==
    IF c.channels # 2 THEN 0
    ELSE 1 + (IF c.sample_format = req.FORMAT THEN 3 ELSE 0)
           + (IF RateWithin(c) THEN 2 ELSE 0)

\* C4: without an exact match the configuration matched is the earliest one
\* of the highest score, never one that scores 0 (channels # 2); so a format
\* match outranks a rate-in-range match, which outranks a 2-channel-only
\* match; None is matched only when every configuration scores 0.
C4_BestEffortHighestScoreFirst ==
    (Listed /\ ~HasExactConfig) =>
        LET m == Built.matched_conf
        IN  /\ m \in 0 .. Len(Conf)
            /\ (m = 0) <=> (\A j \in DOMAIN Conf : Score(Conf[j]) = 0)
            /\ m # 0 =>
                /\ Conf[m].channels = 2
                /\ \A j \in DOMAIN Conf : Score(Conf[j]) <= Score(Conf[m])
                /\ \A j \in 1 .. (m - 1) : Score(Conf[j]) < Score(Conf[m])
                /\ (\E j \in DOMAIN Conf :
                        Conf[j].channels = 2 /\ Conf[j].sample_format = req.FORMAT)
                      => Conf[m].sample_format = req.FORMAT
                /\ ((\A j \in DOMAIN Conf :
                        Conf[j].channels = 2 => Conf[j].sample_format # req.FORMAT)
                    /\ \E j \in DOMAIN Conf : Conf[j].channels = 2 /\ RateWithin(Conf[j]))
                      => RateWithin(Conf[m])
                /\ Built.ok => Built.output_format = Conf[m].sample_format

C4_Witness ==
    /\ Listed /\ ~HasExactConfig /\ Built.ok
    /\ Len(Conf) = 2
    /\ Conf[1].channels = 2 /\ Conf[1].sample_format # req.FORMAT /\ RateWithin(Conf[1])
    /\ Conf[2].channels = 2 /\ Conf[2].sample_format = req.FORMAT
    /\ Built.matched_conf = 2

\* C5 as claimed: after a successful construction a resampler is present
\* exactly when the output rate differs from the requested rate.
C5_ConverterIffRateDiffers ==
    (IsSome(built) /\ Built.ok) =>
        (IsSome(Built.resampler) <=> Built.output_sample_rate # req.sample_rate)

\* C6 as claimed: a list without any 2-channel configuration always makes
\* new fail with DualChannelNotSupported.
C6_NoStereoAlwaysDualChannelError ==
    (Listed /\ NoStereoConfig) =>
        (~Built.ok /\ Built.err = "DualChannelNotSupported")

\* C6, amended: with a list without any 2-channel configuration new asks
\* the backend for its default output configuration, and fails with
\* DualChannelNotSupported exactly when that query succeeds with a
\* configuration that does not have 2 channels.
C6_NoStereoFallsBackToDefault ==
    (Listed /\ NoStereoConfig) =>
        /\ IsSome(Built.default_query)
        /\ LET d == Unwrap(Built.default_query)
           IN  (~Built.ok /\ Built.err = "DualChannelNotSupported")
                   <=> (d.ok /\ d.cfg.channels # 2)

C6_Witness ==
    /\ Listed /\ NoStereoConfig /\ Len(Conf) = 2
    /\ IsSome(Built.default_query)
    /\ Unwrap(Built.default_query).ok
    /\ Unwrap(Built.default_query).cfg.channels = 1
    /\ ~Built.ok /\ Built.err = "DualChannelNotSupported"

\* C10 as claimed: the capacity is the policy's amount at the output rate
\* times 2, an explicit sample count n included (n * 2).
C10_CapacityAllPoliciesTimesChannels ==
    (IsSome(built) /\ Built.ok) =>
        LET rate == Built.output_sample_rate
            kind == Built.buffer_size.kind
        IN  Built.ring_buffer_len =
                CASE kind = "QuarterSecond" -> (rate \div 4) * 2
                  [] kind = "HalfSecond" -> (rate \div 2) * 2
                  [] kind = "OneSecond" -> rate * 2
                  [] kind = "Samples" -> Built.buffer_size.n * 2

\* C10, amended: the capacity comes from the output rate and the policy;
\* the three duration policies are multiplied by the channel count 2, an
\* explicit sample count n is taken as it is (n, not n * 2).
C10_CapacityFromOutputRate ==
    (IsSome(built) /\ Built.ok) =>
        LET rate == Built.output_sample_rate
            kind == Built.buffer_size.kind
        IN  Built.ring_buffer_len =
                CASE kind = "QuarterSecond" -> (rate \div 4) * 2
                  [] kind = "HalfSecond" -> (rate \div 2) * 2
                  [] kind = "OneSecond" -> rate * 2
                  [] kind = "Samples" -> Built.buffer_size.n

C10_Witness ==
    /\ IsSome(built) /\ Built.ok
    /\ Built.output_sample_rate # req.sample_rate
    /\ Built.buffer_size.kind = "QuarterSecond"
    /\ Built.ring_buffer_len = (Built.output_sample_rate \div 4) * 2
    /\ Built.ring_buffer_len # (req.sample_rate \div 4) * 2

(***************************************************************************)
(* Claims about the resampler's slicing, checked under SpecChunk, and about *)
(* the frame helpers, checked under SpecCodec.                              *)
(***************************************************************************)
\* C8: two resamplers that have been fed the same samples, however each
\* stream was cut into calls, have handed the same sequence of output
\* samples to the ring buffer and hold the same carry-over buffer.
C8_SlicingDoesNotMatter ==
    (twin.a.fed = twin.b.fed) =>
        /\ twin.a.emitted = twin.b.emitted
        /\ twin.a.r.pre_resampled_buffer = twin.b.r.pre_resampled_buffer

C8_Witness ==
    /\ twin.a.cuts = <<MaxFed>>
    /\ twin.b.cuts = [i \in 1 .. MaxFed |-> 1]
    /\ twin.a.r.resampler.input_frames_next = 1
    /\ Len(twin.a.emitted) = 2 * MaxFed
    /\ twin.a.emitted = twin.b.emitted

\* C9: read_frames puts the samples at even indices (from 0) into channel 0
\* and those at odd indices into channel 1, each in order, and write_frames
\* of the two channels into an empty buffer gives the sequence back.
C9_InterleaveRoundTrip ==
    /\ codec.stage \in {"split", "merged"} =>
        /\ Len(codec.outputs) = 2
        /\ Len(codec.outputs[1]) = codec.n_frames
        /\ Len(codec.outputs[2]) = codec.n_frames
        /\ \A f \in 1 .. codec.n_frames :
              /\ codec.outputs[1][f] = codec.X[2 * f - 1]
              /\ codec.outputs[2][f] = codec.X[2 * f]
    /\ codec.stage = "merged" => codec.outbuffer = codec.X

C9_Witness ==
    /\ codec.stage = "merged"
    /\ codec.n_frames = 2
    /\ codec.X = <<1, 2, 0, 1>>
    /\ codec.outputs = <<(<<1, 0>>), (<<2, 1>>)>>
    /\ codec.outbuffer = <<1, 2, 0, 1>>

(***************************************************************************)
(* Claims about the running pipeline, checked under Spec.                   *)
(***************************************************************************)
\* C11: in every state after construction (playing or paused, buffer full,
\* partly full or empty, with or without a resampler) a call of queue with
\* data of any length can start, each step of the call can be taken without
\* a step of the callback, no step panics, and the buffer never holds more
\* than its capacity: what does not fit is dropped.
C11_QueueNeverFails ==
    /\ prod.pc # "panicked"
    /\ prod.pc \in {"idle", "loop"}
    /\ prod.pc = "idle" =>
          \A data \in Slices(Len(hist.queued)) :
              Len(hist.queued) + Len(data) <= MaxFed =>
                  IF IsSome(player.resampler)
                  THEN ENABLED QueueResample(data)
                  ELSE ENABLED QueueDirect(data)
    /\ prod.pc = "loop" => (HasBlock(Unwrap(player.resampler)) \/ ENABLED ResampleReturn)
    /\ Len(player.buffer.items) <= player.buffer.capacity
    /\ Len(hist.accepted) <= Len(hist.queued) * 2

C11_Witness ==
    /\ prod.pc = "idle"
    /\ hist.calls = 1
    /\ IsSome(player.resampler)
    /\ ~player.playing
    /\ Len(hist.last_data) = 3
    /\ hist.last_before # <<>>
    /\ Len(hist.last_before) = player.buffer.capacity
    /\ Len(hist.accepted) < hist.blocks * 2 * Unwrap(player.resampler).resampler.output_frames_next

\* C12: with a resampler of block size F >= 1 frames and N samples queued so
\* far, the blocks emitted never exceed N \div (2F) and equal N \div (2F)
\* whenever queue has returned: nothing is emitted while N < 2F, and the
\* first block has been emitted once a call that brought N to 2F or more has
\* returned.  For 44100 -> 48000 the block is 735 frames, so 1000 samples
\* give no block and 2000 samples give one.
C12_BlocksAreFloorOfFed ==
    /\ LET c == FftFixedInOut_new(44100, 48000, 44100 \div RateUnit)
       IN  /\ c.ok
           /\ c.input_frames_next = 735
           /\ 1000 \div (2 * c.input_frames_next) = 0
           /\ 2000 \div (2 * c.input_frames_next) = 1
    /\ IsSome(player.resampler) =>
          LET N == Len(hist.queued)
              F == BlockFrames
          IN  /\ F >= 1
              /\ hist.blocks <= N \div (2 * F)
              /\ prod.pc = "idle" => hist.blocks = N \div (2 * F)
              /\ N < 2 * F => (hist.blocks = 0 /\ hist.accepted = <<>>)
              /\ (prod.pc = "idle" /\ N >= 2 * F) => hist.blocks >= 1

C12_Witness ==
    /\ IsSome(player.resampler)
    /\ BlockFrames = 2
    /\ prod.pc = "idle"
    /\ Len(hist.queued) = 5
    /\ Len(hist.last_data) = 3
    /\ hist.blocks = 1
    /\ Len(Carry) = 1

\* C13: in an invocation of the callback for n slots that began with m
\* samples buffered and saw no push, the slots written so far hold the
\* first buffered samples in FIFO order and then the neutral sample, and
\* exactly the samples written have left the buffer; once every slot is
\* written the first min(n, m) slots hold the first min(n, m) buffered
\* samples, the other n - min(n, m) slots hold the neutral sample and
\* min(n, m) samples have been removed.
C13_CallbackFillsEverySlot ==
    (cb.pc = "fill" /\ ~cb.disturbed) =>
        LET written == cb.n - cb.left
            m == Len(cb.snap)
            k == Min(written, m)
            start == Len(cb.out) - written
        IN  /\ start >= 0
            /\ \A i \in 1 .. k :
                  /\ cb.out[start + i]
                        = from_sample(req.FORMAT, player.output_format, cb.snap[i])
                  /\ ~cb.silent[start + i]
            /\ \A i \in (k + 1) .. written :
                  /\ cb.out[start + i]
                        = from_sample(req.FORMAT, player.output_format, EQUILIBRIUM)
                  /\ cb.silent[start + i]
            /\ player.buffer.items = SubSeq(cb.snap, k + 1, m)
            /\ Len(hist.popped) = cb.popped0 + k
            /\ cb.left = 0 => Len(cb.out) = start + cb.n

C13_Witness ==
    /\ cb.pc = "fill"
    /\ cb.left = 0
    /\ ~cb.disturbed
    /\ cb.n = 2
    /\ Len(cb.snap) = 1
    /\ Len(cb.out) = 4
    /\ cb.out[3] = cb.snap[1]
    /\ cb.out[4] = EQUILIBRIUM
    /\ player.buffer.items = <<>>

(***************************************************************************)
(* Claims about AudioPlayer::new, checked under SpecNew.                    *)
(***************************************************************************)
\* the variants of AudioPlayerError (error.rs 17-36)
AudioPlayerErrors ==
    {"NoOutputDevice", "DualChannelNotSupported", "DeviceNotAvailable",
     "DeviceBackendSpecificError", "StreamTypeNotSupported",
     "StreamConfigInvalidArgument", "StreamIdOverflow", "StreamConfigNotSupported",
     "ResamplerConstructionError"}

\* what a successful build holds
PlayerParts == {"output_sample_rate", "output_format", "resampler", "ring_buffer_len"}

\* the first stage of the build that fails for the request and the answers
\* of the backend, named by the error it must return ("none": no stage fails)
FirstFailure ==
    LET stream == IF Unwrap(hist).stream_outcome = "Ok"
                  THEN "none"
                  ELSE Unwrap(hist).stream_outcome
        default == Unwrap(Built.default_query)
    IN  IF ~req.backend.device THEN "NoOutputDevice"
        ELSE IF ~req.backend.configs_ok
             THEN IF req.backend.configs_err = "InvalidArgument"
                  THEN "StreamConfigInvalidArgument"
                  ELSE req.backend.configs_err
        ELSE IF HasExactConfig THEN stream
        ELSE IF Built.matched_conf = 0 /\ ~default.ok THEN default.err
        ELSE IF Built.matched_conf = 0 /\ default.cfg.channels # 2
             THEN "DualChannelNotSupported"
        ELSE IF req.sample_rate = 0 THEN "ResamplerConstructionError"
        ELSE stream

\* C14: new fails exactly when one of its stages fails; it then returns the
\* error of the first failing stage, one of the variants of
\* AudioPlayerError, and nothing of the player (no rate, format, resampler
\* or ring buffer); when no stage fails it returns the whole player.  The
\* resampler's construction error is the answer to a zero rate.
C14_BuildAllOrNothing ==
    IsSome(built) =>
        /\ Built.ok <=> FirstFailure = "none"
        /\ ~Built.ok =>
              /\ Built.err = FirstFailure
              /\ Built.err \in AudioPlayerErrors
              /\ DOMAIN Built \cap PlayerParts = {}
        /\ Built.ok => PlayerParts \subseteq DOMAIN Built
        /\ (~Built.ok /\ Built.err = "ResamplerConstructionError") =>
              /\ req.sample_rate = 0
              /\ ~Built.found_conf

C14_Witness ==
    /\ IsSome(built)
    /\ ~Built.ok
    /\ Built.err = "ResamplerConstructionError"
    /\ Built.matched_conf # 0
    /\ Unwrap(hist).stream_outcome = "Ok"
    /\ DOMAIN Built \cap PlayerParts = {}

(***************************************************************************)
(* Claims about the resampler inside the running pipeline, checked under    *)
(* Spec.                                                                    *)
(***************************************************************************)
\* C15: the input blocks the resampler has handed to the transform so far,
\* in order and each re-interleaved, followed by the carry-over buffer, are
\* exactly the samples queued so far: no input sample is lost, duplicated
\* or reordered, and what one call leaves over heads the next block.
C15_HandedThenCarryIsFed ==
    IsSome(player.resampler) =>
        /\ hist.handed \o Carry = hist.queued
        /\ Len(hist.handed) = hist.blocks * 2 * BlockFrames

C15_Witness ==
    /\ IsSome(player.resampler)
    /\ prod.pc = "idle"
    /\ BlockFrames = 2
    /\ Len(hist.queued) = 6
    /\ Len(hist.last_data) = 3
    /\ hist.handed = <<1, 2, 3, 4>>
    /\ Carry = <<5, 6>>

\* C16: the transform demands F >= 1 frames; every iteration of the loop of
\* a queue call removes exactly the first 2 * F samples of the carry-over
\* buffer, so the loop ends after at most Len(carry) \div 2 iterations, and
\* at its return the carry-over buffer holds fewer than 2 * F' samples, F'
\* being the frames demanded next.
C16_LoopConsumesAndTerminates ==
    [][(IsSome(player.resampler) /\ prod.pc = "loop") =>
          /\ BlockFrames >= 1
          /\ prod'.pc # "panicked"
          /\ player'.resampler # player.resampler =>
                /\ Len(Carry) >= 2 * BlockFrames
                /\ Carry' = SubSeq(Carry, 2 * BlockFrames + 1, Len(Carry))
                /\ Len(Carry') = Len(Carry) - 2 * BlockFrames
                /\ hist'.blocks = hist.blocks + 1
          /\ prod'.pc = "idle" =>
                /\ Carry' = Carry
                /\ Len(Carry') < 2 * BlockFrames'
      ]_vars

C16_Witness ==
    /\ IsSome(player.resampler)
    /\ prod.pc = "idle"
    /\ BlockFrames = 1
    /\ Len(hist.queued) = 6
    /\ Len(hist.last_data) = 3
    /\ hist.blocks = 3
    /\ Carry = <<>>

\* C17: a block of b samples emitted while the ring buffer has k free slots
\* adds its first min(k, b) samples behind the buffered ones and loses the
\* rest, and its 2 * F input samples leave the carry-over buffer whether it
\* fitted or not; after a call has returned the carry-over buffer is the
\* last Len(queued) mod 2F samples queued, whatever the buffer held and
\* whatever the callback popped meanwhile.
C17_FullBufferLeavesCarryAlone ==
    [][IsSome(player.resampler) =>
          /\ (prod.pc = "loop" /\ player'.resampler # player.resampler) =>
                LET block == Unwrap(player'.resampler).resampled_buffer
                    b == Len(block)
                    k == player.buffer.capacity - Len(player.buffer.items)
                IN  /\ b = 2 * Unwrap(player.resampler).resampler.output_frames_next
                    /\ player'.buffer.items
                          = player.buffer.items \o SubSeq(block, 1, Min(k, b))
                    /\ hist'.accepted = hist.accepted \o SubSeq(block, 1, Min(k, b))
                    /\ Carry' = SubSeq(Carry, 2 * BlockFrames + 1, Len(Carry))
          /\ prod'.pc = "idle" =>
                LET N == Len(hist'.queued)
                    rest == N % (2 * BlockFrames')
                IN  Carry' = SubSeq(hist'.queued, N - rest + 1, N)
      ]_vars

C17_Witness ==
    /\ IsSome(player.resampler)
    /\ prod.pc = "idle"
    /\ player.buffer.capacity = 3
    /\ Unwrap(player.resampler).resampler.output_frames_next = 2
    /\ hist.blocks = 2
    /\ Len(hist.accepted) = 3
    /\ hist.popped = <<>>
    /\ Len(hist.queued) = 5
    /\ Carry = <<5>>

(***************************************************************************)
(* The pipeline of a caller that queues whole stereo frames, on a ring      *)
(* buffer of even capacity, with a backend that asks for whole frames.      *)
(***************************************************************************)
EvenSlices(fed) == {data \in Slices(fed) : Len(data) % Channels = 0}

EvenSlots == {n \in 1 .. MaxSlots : n % Channels = 0}

InitAligned ==
    /\ Init
    /\ player.buffer.capacity % Channels = 0

NextAligned ==
    \/ \E data \in EvenSlices(Len(hist.queued)) : QueueDirect(data)
    \/ \E data \in EvenSlices(Len(hist.queued)) : QueueResample(data)
    \/ ResampleBlock
    \/ ResampleReturn
    \/ Play
    \/ Pause
    \/ \E n \in EvenSlots : CallbackBegin(n)
    \/ CallbackSlot
    \/ CallbackReturn

SpecAligned == InitAligned /\ [][NextAligned]_vars

\* how many of the first i output slots were filled from the ring buffer
FilledUpTo(i) == Cardinality({j \in 1 .. i : ~cb.silent[j]})

\* C18 as claimed: with an even capacity, queue calls of even length and
\* callback invocations of an even number of slots, every sample that came
\* from the ring buffer sits in a slot of its own channel: left samples at
\* even positions of the output stream (counted from 0), right samples at
\* odd positions.
C18_ChannelAlignment ==
    \A i \in DOMAIN cb.out :
        ~cb.silent[i] => hist.ch[FilledUpTo(i)] = (i - 1) % Channels

(***************************************************************************)
(* Claims about the ring buffer in the running pipeline, checked under      *)
(* Spec.                                                                    *)
(***************************************************************************)
\* C19: in every interleaving of the caller thread and the callback the
\* ring buffer keeps the capacity new gave it, holds between 0 and
\* `capacity` samples, and holds exactly the accepted samples that have not
\* been popped, oldest first: a push adds behind them, a pop takes the
\* oldest, and none of them is overwritten.
C19_RingBufferBounded ==
    /\ player.buffer.capacity = Built.ring_buffer_len
    /\ Len(player.buffer.items) >= 0
    /\ Len(player.buffer.items) <= player.buffer.capacity
    /\ hist.accepted = hist.popped \o player.buffer.items

C19_Witness ==
    /\ ~IsSome(player.resampler)
    /\ player.buffer.capacity = 2
    /\ Len(player.buffer.items) = 2
    /\ Len(hist.popped) = 2
    /\ Len(hist.accepted) = 4
    /\ Len(hist.queued) > 4
    /\ cb.pc = "fill"

(***************************************************************************)
(* The rate and format of the best-effort pass, checked under SpecNew.      *)
(***************************************************************************)
\* C20: when new succeeds through the best-effort pass with a winning
\* configuration, the output rate is the requested rate if the winner's
\* range contains it and the winner's maximum rate otherwise (requested
\* rate under the minimum or over the maximum), and the output format is
\* the winner's format.
C20_BestEffortRateAndFormat ==
    (Listed /\ Built.ok /\ ~Built.found_conf /\ Built.matched_conf # 0) =>
        LET winner == Conf[Built.matched_conf]
        IN  /\ Built.output_sample_rate =
                  IF winner.min_sample_rate <= req.sample_rate
                        /\ req.sample_rate <= winner.max_sample_rate
                  THEN req.sample_rate
                  ELSE winner.max_sample_rate
            /\ Built.output_format = winner.sample_format

C20_Witness ==
    /\ Listed /\ Built.ok /\ ~Built.found_conf /\ Built.matched_conf # 0
    /\ req.sample_rate < Conf[Built.matched_conf].min_sample_rate
    /\ Built.output_sample_rate = Conf[Built.matched_conf].max_sample_rate
    /\ Built.output_sample_rate # req.sample_rate
    /\ Built.output_format # req.FORMAT
    /\ Built.output_format = Conf[Built.matched_conf].sample_format

(***************************************************************************)
(* The fallback to the backend's default configuration, checked under       *)
(* SpecNew.                                                                 *)
(***************************************************************************)
\* C21: when the list is read, holds no exact match and no configuration
\* wins the best-effort pass (the list is empty or holds no 2-channel
\* configuration), new asks the backend for its default output
\* configuration: it returns the backend's error if the query fails and
\* DualChannelNotSupported if the default does not have 2 channels;
\* otherwise it goes on with the default's rate and format, so that a
\* build that succeeds has them as output rate and format, with a
\* resampler from the requested rate to the default's rate, and a build
\* that fails has failed at the resampler or at the stream.
C21_FallbackToDefaultConfig ==
    (Listed /\ ~HasExactConfig /\ (Conf = <<>> \/ \A i \in DOMAIN Conf : Score(Conf[i]) = 0)) =>
        /\ Built.matched_conf = 0
        /\ IsSome(Built.default_query)
        /\ LET default == Unwrap(Built.default_query)
           IN  IF ~default.ok
               THEN /\ ~Built.ok
                    /\ Built.err = default.err
                    /\ Built.err \in {"DeviceNotAvailable", "StreamTypeNotSupported"}
               ELSE IF default.cfg.channels # 2
               THEN ~Built.ok /\ Built.err = "DualChannelNotSupported"
               ELSE IF Built.ok
               THEN /\ Built.output_sample_rate = default.cfg.sample_rate
                    /\ Built.output_format = default.cfg.sample_format
                    /\ IsSome(Built.resampler)
                    /\ Unwrap(Built.resampler).input_rate = req.sample_rate
                    /\ Unwrap(Built.resampler).output_rate = default.cfg.sample_rate
               ELSE \/ Built.err = "ResamplerConstructionError" /\ req.sample_rate = 0
                    \/ Built.err = Unwrap(hist).stream_outcome

C21_Witness ==
    /\ Listed /\ Built.ok
    /\ Conf # <<>>
    /\ \A i \in DOMAIN Conf : Score(Conf[i]) = 0
    /\ Built.matched_conf = 0
    /\ Unwrap(Built.default_query).ok
    /\ Unwrap(Built.default_query).cfg.sample_rate # req.sample_rate
    /\ Built.output_sample_rate = Unwrap(Built.default_query).cfg.sample_rate
    /\ Built.output_format = "I16"

(***************************************************************************)
(* Claims about the buffers of the resampler's loop, checked under Spec.    *)
(***************************************************************************)
\* C22: whenever the loop is about to run an iteration, the carry-over
\* buffer holds at least 2 * F samples, F being the frames the transform
\* demands, so read_frames finds every sample it takes; no iteration
\* panics; and the two per-channel buffers read_frames filled, and the two
\* that write_frames merges, have the same length (F and the transform's
\* output frames), the merged block twice that.
C22_FrameHelpersInBounds ==
    /\ prod.pc # "panicked"
    /\ IsSome(player.resampler) =>
          LET r == Unwrap(player.resampler)
              F == r.resampler.input_frames_next
              O == r.resampler.output_frames_next
          IN  /\ (prod.pc = "loop" /\ HasBlock(r)) =>
                    /\ Len(r.pre_resampled_buffer) >= 2 * F
                    /\ ~read_frames_panics(r.pre_resampled_buffer, F,
                                           r.pre_resampled_split_buffers)
              /\ Len(r.pre_resampled_split_buffers) = 2
              /\ Len(r.pre_resampled_split_buffers[1]) = Len(r.pre_resampled_split_buffers[2])
              /\ Len(r.resample_process_buffers) = 2
              /\ Len(r.resample_process_buffers[1]) = Len(r.resample_process_buffers[2])
              /\ hist.blocks >= 1 =>
                    /\ Len(r.pre_resampled_split_buffers[1]) = F
                    /\ Len(r.resample_process_buffers[1]) = O
                    /\ Len(r.resampled_buffer) = 2 * O

C22_Witness ==
    /\ IsSome(player.resampler)
    /\ prod.pc = "loop"
    /\ HasBlock(Unwrap(player.resampler))
    /\ hist.blocks = 1
    /\ BlockFrames = 1
    /\ Len(Carry) = 3
    /\ Len(Unwrap(player.resampler).resample_process_buffers[2]) = 2

(***************************************************************************)
(* Claims about play and pause, checked under Spec.                         *)
(***************************************************************************)
\* C23 as claimed: while the stream is paused no sample is consumed.
C23_NothingConsumedWhilePaused ==
    [][(~player.playing /\ ~player'.playing) => hist'.popped = hist.popped]_vars

\* C23, amended: play and pause change nothing but the stream's state (ring
\* buffer, carry-over buffer and resampler stay as they are); while the
\* stream is paused no invocation of the callback begins, so once the
\* invocation that was running at the pause, if any, has returned, no
\* sample is consumed: queue leaves the buffered samples in place and adds
\* behind them up to the capacity, and changes nothing once the buffer is
\* full; every sample consumed, before or after a pause, is the oldest one
\* buffered.
C23_PausedStreamKeepsBuffer ==
    [][/\ player'.playing # player.playing =>
             /\ player'.buffer = player.buffer
             /\ player'.resampler = player.resampler
             /\ player'.output_format = player.output_format
             /\ <<prod, cb, hist>>' = <<prod, cb, hist>>
       /\ (~player.playing /\ cb.pc = "idle") =>
             /\ cb' = cb
             /\ hist'.popped = hist.popped
             /\ Len(player'.buffer.items) >= Len(player.buffer.items)
             /\ SubSeq(player'.buffer.items, 1, Len(player.buffer.items))
                   = player.buffer.items
             /\ Len(player'.buffer.items) <= player.buffer.capacity
             /\ Len(player.buffer.items) = player.buffer.capacity
                   => player'.buffer.items = player.buffer.items
       /\ hist'.popped # hist.popped =>
             /\ player.buffer.items # <<>>
             /\ hist'.popped = Append(hist.popped, Head(player.buffer.items))
             /\ player'.buffer.items = Tail(player.buffer.items)
      ]_vars

C23_Witness ==
    /\ ~player.playing
    /\ cb.pc = "idle"
    /\ prod.pc = "idle"
    /\ hist.popped # <<>>
    /\ Len(player.buffer.items) = player.buffer.capacity
    /\ hist.calls = 1
    /\ hist.last_data # <<>>
    /\ hist.last_before = player.buffer.items
    /\ Len(hist.queued) > Len(hist.accepted)

\* C24 as claimed: when the transform is invoked, each of the two scratch
\* output buffers holds exactly output_frames_next samples, all of them the
\* neutral sample.
C24_ScratchBuffersNeutral ==
    (IsSome(player.resampler) /\ prod.pc = "loop" /\ HasBlock(Unwrap(player.resampler))) =>
        LET r == Unwrap(player.resampler)
            O == r.resampler.output_frames_next
            prepared == PrepareProcessBuffers(r.resample_process_buffers, O)
        IN  \A c \in 1 .. 2 :
                /\ Len(prepared[c]) = O
                /\ \A j \in 1 .. O : prepared[c][j] = EQUILIBRIUM

====
